---- MODULE Spec2Model ----
(***************************************************************************)
(* LZ8S: a byte aligned LZ compressor (src/src/lz8s.c) and its             *)
(* decompressor (src/src/lz8dec.c).                                        *)
(*                                                                         *)
(* The compressor fills a table of costs backwards over the input          *)
(* (lzop_backfill), then walks the input forwards and emits literal and    *)
(* match blocks (lzop_encode, code_match).  The decompressor reads the     *)
(* blocks back (decode, get_len).                                          *)
(***************************************************************************)
EXTENDS Integers, Sequences, FiniteSets, TLC

VARIABLES
    bits_moff,      \* lz8s.c:90, lz8dec.c:28  number of bits of an offset
    max_llen,       \* lz8s.c:93, lz8dec.c:30  maximum literal length
    max_mlen,       \* lz8s.c:92, lz8dec.c:29  maximum match length
    zero_offset,    \* lz8s.c:94, lz8dec.c:31  write the offset of an empty match
    offset_rel,     \* lz8s.c:458, lz8dec.c:32 -1, or the address of the buffer
    exor_offset,    \* lz8dec.c:33 offsets are complemented (lz8dec -x)
    file,           \* the bytes of the input file of lz8s
    data,           \* lzop.data: the bytes to compress
    sp,             \* lzop.sp: the state at each position
    pc,             \* where main of lz8s.c is
    pos,            \* the position of the running loop of lz8s.c
    lpos,           \* main's lpos: last position of the block being skipped
    in_literal,     \* lzop.in_literal
    buf,            \* bf.buf[0 .. bf.len)
    out,            \* the bytes written to bf.out, the compressed file
    blocks,         \* the blocks lzop_encode started: kind, position, length,
                    \* distance, and the place of the length byte in buf
    mode,           \* what is fed to the decompressor
    inp,            \* the standard input of lz8dec
    rd,             \* number of bytes of inp already read
    dpc,            \* where decode() of lz8dec.c is
    dbuf,           \* decode's buf, on the indexes written so far
    dpos,           \* decode's pos
    n,              \* decode's n: the count of the block being copied
    off,            \* decode's off
    dout,           \* the standard output of lz8dec
    err,            \* the message lz8dec wrote to stderr, or "none"
    lim,            \* the limit of the length field under test
    len             \* the length written to and read from the length field

vars == << bits_moff, max_llen, max_mlen, zero_offset, offset_rel, exor_offset,
          file, data, sp,
           pc, pos, lpos, in_literal, buf, out, blocks, mode, inp, rd, dpc, dbuf, dpos,
           n, off, dout, err, lim, len >>

\* The options and the input file: no step of the programs changes them.
cfgvars == << bits_moff, max_llen, max_mlen, zero_offset, offset_rel,
             exor_offset, file >>
encvars == << data, sp, pc, pos, lpos, in_literal, buf, out, blocks >>
decvars == << mode, inp, rd, dpc, dbuf, dpos, n, off, dout, err >>
lenvars == << lim, len >>

---------------------------------------------------------------------------
(* Bounds of the model *)

\* Longest input of the exhaustive part of the inputs.
MaxLen == 4

\* Longest compressed file given to the decompressor alone.
MaxStream == 3

\* The number of bytes the buffer of main holds in the runs that start
\* at the reading of the input.
ReadCap == 3

\* The number of bytes buf of struct bf holds in those runs.
BufCap == 3

\* The byte values of the exhaustive inputs.
Alphabet == {65, 66}

---------------------------------------------------------------------------
(* Arithmetic helpers *)

Min(a, b) == IF a < b THEN a ELSE b

\* lz8s.c max()
max(a, b) == IF a > b THEN a ELSE b

RECURSIVE Pow2(_)
Pow2(k) == IF k = 0 THEN 1 ELSE 2 * Pow2(k - 1)

\* #define INFINITE_COST (INT_MAX/256)
INFINITE_COST == 8388607

\* static int min_mlen = 1
min_mlen == 1

\* The window twice as far back as the offset field reaches.
max_off_double(bm) == 2 * Pow2(bm)

\* #define max_off (1<<bits_moff)
max_off(bm) == Pow2(bm)

---------------------------------------------------------------------------
(* The cost model, lz8s.c:140-192.  The configuration is passed in a      *)
(* record c of the five options.                                           *)

\* mlen_cost: the cost of writing this match length
mlen_cost(c, l) ==
    IF l > c.max_mlen THEN INFINITE_COST
    ELSE IF c.max_mlen > 255 /\ l > 127 THEN 16
    ELSE 8

\* moff_cost without its case for bits_moff = 0: an offset that takes no
\* byte is counted as one byte.
moff_cost_no_rle(c, o) ==
    IF o > max_off(c.bits_moff) \/ o < 1 THEN INFINITE_COST
    ELSE IF c.bits_moff <= 8 THEN 8
    ELSE 16

\* moff_cost: the cost of writing the match offset
moff_cost(c, o) ==
    IF o > max_off(c.bits_moff) \/ o < 1 THEN INFINITE_COST
    ELSE IF c.bits_moff = 0 THEN 0
    ELSE IF c.bits_moff <= 8 THEN 8
    ELSE 16

\* lzop_init: zero_match_cost = mlen_cost(0) + (zero_offset ? moff_cost(1) : 0)
zero_match_cost(c) ==
    mlen_cost(c, 0) + (IF c.zero_offset THEN moff_cost(c, 1) ELSE 0)

\* The while loop of llen_cost: one zero length match plus one header for
\* every max_llen bytes above the first block.
RECURSIVE llen_split(_, _, _)
llen_split(c, l, bits) ==
    IF l > c.max_llen
    THEN llen_split(c, l - c.max_llen, bits + 8 + zero_match_cost(c))
    ELSE << l, bits >>

\* llen_cost: the cost of writing this literal length
llen_cost(c, l) ==
    IF l = 0 THEN 0
    ELSE LET r == llen_split(c, l, 0)
             bits == IF c.max_llen > 255 /\ r[1] > 127 THEN r[2] + 8 ELSE r[2]
         IN  8 + bits

---------------------------------------------------------------------------
(* The match finder, lz8s.c:76-138.  d is the input as a sequence, so the  *)
(* byte data[p] of the C code is d[p + 1].                                 *)

\* get_mlen: the length of the common prefix of data[a..] and data[b..],
\* at most mx.
RECURSIVE get_mlen_from(_, _, _, _, _)
get_mlen_from(d, a, b, mx, i) ==
    IF i < mx /\ d[a + i + 1] = d[b + i + 1]
    THEN get_mlen_from(d, a, b, mx, i + 1)
    ELSE i

get_mlen(d, a, b, mx) == get_mlen_from(d, a, b, mx, 0)

\* The for loop of match with a match of the same length replacing the
\* best one.
RECURSIVE match_loop_latest(_, _, _, _, _, _, _)
match_loop_latest(c, d, p, mxlen, i, mlen, mpos) ==
    IF i >= p THEN << mlen, mpos >>
    ELSE LET ml == get_mlen(d, p, i, mxlen)
         IN  IF ml >= mlen
             THEN IF ml >= mxlen THEN << ml, p - i >>
                  ELSE match_loop_latest(c, d, p, mxlen, i + 1, ml, p - i)
             ELSE match_loop_latest(c, d, p, mxlen, i + 1, mlen, mpos)

\* The for loop of match: i runs from max(pos - max_off, 0) to pos - 1, a
\* strictly longer match replaces the best one, and the loop returns as
\* soon as the longest possible match is found.
RECURSIVE match_loop(_, _, _, _, _, _, _)
match_loop(c, d, p, mxlen, i, mlen, mpos) ==
    IF i >= p THEN << mlen, mpos >>
    ELSE LET ml == get_mlen(d, p, i, mxlen)
         IN  IF ml > mlen
             THEN IF ml >= mxlen THEN << ml, p - i >>
                  ELSE match_loop(c, d, p, mxlen, i + 1, ml, p - i)
             ELSE match_loop(c, d, p, mxlen, i + 1, mlen, mpos)

\* match: << maximal match length, match offset >> at p.  The caller's mp
\* is 0 when no match is found.
match(c, d, p, size) ==
    LET mxlen == 0 - max(0 - c.max_mlen, p - size)
    IN  match_loop(c, d, p, mxlen, max(p - max_off(c.bits_moff), 0), 0, 0)

---------------------------------------------------------------------------
(* The optimal parsing table, lz8s.c:100-107 and 194-286.                  *)

\* A cell of calloc'ed memory.
ZeroCell == [lbits |-> 0, llen |-> 0, mbits |-> 0, mlen |-> 0, mpos |-> 0]

\* lzop_backfill, "Initialize the last byte".
LastCell == [lbits |-> 0, llen |-> 0, mbits |-> INFINITE_COST, mlen |-> 0, mpos |-> 0]

\* First loop of the literal case: LITERAL after this literal, i = 1 .. 5.
\* acc is << lbits, llen, ml >>.
RECURSIVE lit_after_lit(_, _, _, _, _, _)
lit_after_lit(c, t, p, size, i, acc) ==
    IF i >= 6 \/ p + i > size THEN acc
    ELSE LET nxt   == t[p + i]
             ml    == IF acc[3] < nxt.llen + i THEN nxt.llen + i ELSE acc[3]
             lbits == nxt.lbits + 8 * i - llen_cost(c, nxt.llen)
                        + llen_cost(c, nxt.llen + i)
         IN  IF lbits < acc[1]
             THEN lit_after_lit(c, t, p, size, i + 1, << lbits, nxt.llen + i, ml >>)
             ELSE lit_after_lit(c, t, p, size, i + 1, << acc[1], acc[2], ml >>)

\* Second loop of the literal case: MATCH after i bytes of literal,
\* i = 1 .. ml - 1.  acc is << lbits, llen >>.
RECURSIVE match_after_lit(_, _, _, _, _, _)
match_after_lit(c, t, p, ml, i, acc) ==
    IF i > ml - 1 THEN acc
    ELSE LET nxt   == t[p + i]
             mbits == nxt.mbits + 8 * i + llen_cost(c, i)
         IN  IF mbits < acc[1]
             THEN match_after_lit(c, t, p, ml, i + 1, << mbits, i >>)
             ELSE match_after_lit(c, t, p, ml, i + 1, acc)

\* Third loop: all match lengths l = min_mlen .. ml at the offset mp.
\* acc is << bestm, mlen, mbits >>.
RECURSIVE match_lengths(_, _, _, _, _, _, _)
match_lengths(c, t, p, mp, ml, l, acc) ==
    IF l > ml THEN acc
    ELSE LET nxt   == t[p + l]
             mbits == nxt.mbits + llen_cost(c, 1) + moff_cost(c, mp) + mlen_cost(c, l)
             lbits == nxt.lbits + moff_cost(c, mp) + mlen_cost(c, l)
             a1    == IF lbits <= acc[1] THEN << lbits, l, lbits >> ELSE acc
         IN  IF mbits <= a1[1]
             THEN match_lengths(c, t, p, mp, ml, l + 1, << mbits, l, mbits >>)
             ELSE match_lengths(c, t, p, mp, ml, l + 1, a1)

\* The body of the for loop of lzop_backfill: the cell at position p, from
\* the cells after it.  cur->mlen is only written by the third loop.
backfill_cell(c, d, t, p, size) ==
    LET l1 == lit_after_lit(c, t, p, size, 1, << INFINITE_COST, 0, 0 >>)
        l2 == match_after_lit(c, t, p, l1[3], 1, << l1[1], l1[2] >>)
        m  == match(c, d, p, size)
        m3 == match_lengths(c, t, p, m[2], m[1], min_mlen,
                            << INFINITE_COST, t[p].mlen, INFINITE_COST >>)
    IN  [lbits |-> l2[1], llen |-> l2[2],
         mbits |-> m3[3], mlen |-> m3[2], mpos |-> m[2]]

---------------------------------------------------------------------------
(* The emitter, lz8s.c:342-441 and the compress loop of main, 594-599.     *)

\* The length field with the count stored less one.
len_bytes_less_one(limit, l) ==
    IF l > 127 /\ limit > 255
    THEN << 128 + ((l - 1) % 128), (((l - 1) \div 128) - 1) % 256 >>
    ELSE << (l - 1) % 256 >>

\* The length field: one byte, or two bytes for a length above 127 when the
\* limit is above 255 (code_match with max_mlen, lzop_encode with max_llen).
\* add_byte stores into a uint8_t.
len_bytes(limit, l) ==
    IF l > 127 /\ limit > 255
    THEN << 128 + (l % 128), ((l \div 128) - 1) % 256 >>
    ELSE << l % 256 >>

\* The offset field with a low byte written even when bits_moff is 0.
off_bytes_always(c, o) ==
    << o % 256 >> \o (IF c.bits_moff > 8 THEN << (o \div 256) % 256 >> ELSE << >>)

\* The offset field of code_match: nothing, the low byte, or low and high.
off_bytes(c, o) ==
    (IF c.bits_moff # 0 THEN << o % 256 >> ELSE << >>)
      \o (IF c.bits_moff > 8 THEN << (o \div 256) % 256 >> ELSE << >>)

\* code_match: the bytes of a match block of length l and offset field o.
code_match(c, l, o) ==
    len_bytes(c.max_mlen, l)
      \o (IF l # 0 \/ c.zero_offset THEN off_bytes(c, o) ELSE << >>)

\* The offset field of the relative mode without the address of the buffer.
match_field_no_rel(c, p, mpos) ==
    IF c.offset_rel < 0 THEN (mpos - 1) % 65536
    ELSE (p - mpos) % 65536

\* The offset field holding the distance itself, not the distance less one.
match_field_distance(c, p, mpos) ==
    IF c.offset_rel < 0 THEN mpos % 65536
    ELSE (p + c.offset_rel - mpos) % 65536

\* lzop_encode, match branch: the value written as the offset of a match
\* at position p with distance mpos.
match_field(c, p, mpos) ==
    IF c.offset_rel < 0 THEN (mpos - 1) % 65536
    ELSE (p + c.offset_rel - mpos) % 65536

\* The choice with no extra cost for the empty match after a literal.
takes_literal_no_extra(c, cur, inlit) == cur.lbits <= cur.mbits

\* lzop_encode: the alternative taken at a position read from the table.
takes_literal(c, cur, inlit) ==
    cur.lbits + (IF inlit THEN zero_match_cost(c) ELSE 0) <= cur.mbits

\* The literal branch without the cut at max_llen.
literal_len_uncut(c, cur) == cur.llen

\* The literal branch writing one byte per block.
literal_len_one(c, cur) == 1

\* lzop_encode, literal branch: the length of the block written.
literal_len(c, cur) ==
    IF cur.llen > c.max_llen THEN c.max_llen ELSE cur.llen

cfg == [bits_moff |-> bits_moff, max_llen |-> max_llen, max_mlen |-> max_mlen,
        zero_offset |-> zero_offset, offset_rel |-> offset_rel]

size == Len(data)

\* lzop_init and the first lines of lzop_backfill: nothing to do for an
\* empty input, else the cell after the last byte is initialized.
lzop_backfill_init ==
    /\ pc = "init"
    /\ IF size = 0
       THEN /\ pc' = "compress"
            /\ UNCHANGED << sp, pos >>
       ELSE /\ sp' = [sp EXCEPT ![size] = LastCell]
            /\ pos' = size - 1
            /\ pc' = "backfill"
    /\ UNCHANGED << data, lpos, in_literal, buf, out, blocks >>
    /\ UNCHANGED << cfgvars, decvars, lenvars >>

\* One turn of the for loop of lzop_backfill; after the last one main
\* starts the compress loop at position 0.
lzop_backfill ==
    /\ pc = "backfill"
    /\ sp' = [sp EXCEPT ![pos] = backfill_cell(cfg, data, sp, pos, size)]
    /\ IF pos = 0
       THEN pc' = "compress" /\ pos' = 0
       ELSE pc' = pc /\ pos' = pos - 1
    /\ UNCHANGED << data, lpos, in_literal, buf, out, blocks >>
    /\ UNCHANGED << cfgvars, decvars, lenvars >>

\* lzop_encode with pos <= lpos: inside a block, a literal byte is copied.
encode_skip ==
    /\ pos <= lpos
    /\ buf' = IF in_literal THEN Append(buf, data[pos + 1]) ELSE buf
    /\ UNCHANGED << lpos, in_literal, blocks >>

\* lzop_encode, a new literal block.
encode_literal ==
    /\ pos > lpos
    /\ takes_literal(cfg, sp[pos], in_literal)
    /\ LET l == literal_len(cfg, sp[pos])
       IN  /\ buf' = buf \o (IF in_literal THEN code_match(cfg, 0, 0) ELSE << >>)
                         \o len_bytes(max_llen, l)
                         \o << data[pos + 1] >>
           /\ lpos' = pos + l - 1
           /\ blocks' = Append(blocks,
                  [lit |-> TRUE, at |-> pos, n |-> l, mpos |-> 0,
                   o |-> Len(buf) + (IF in_literal
                                     THEN Len(code_match(cfg, 0, 0)) ELSE 0)])
    /\ in_literal' = TRUE

\* lzop_encode, a new match block.
encode_match ==
    /\ pos > lpos
    /\ ~ takes_literal(cfg, sp[pos], in_literal)
    /\ buf' = buf \o (IF in_literal THEN << >> ELSE << 0 >>)
                  \o code_match(cfg, sp[pos].mlen,
                                match_field(cfg, pos, sp[pos].mpos))
    /\ lpos' = pos + sp[pos].mlen - 1
    /\ blocks' = Append(blocks, [lit |-> FALSE, at |-> pos, n |-> sp[pos].mlen,
                                 mpos |-> sp[pos].mpos,
                                 o |-> Len(buf) + (IF in_literal THEN 0 ELSE 1)])
    /\ in_literal' = FALSE

\* One turn of the compress loop of main: lpos = lzop_encode(..., pos, lpos).
lzop_encode ==
    /\ pc = "compress"
    /\ pos < size
    /\ (encode_skip \/ encode_literal \/ encode_match)
    /\ pos' = pos + 1
    /\ UNCHANGED << data, sp, pc, out >>
    /\ UNCHANGED << cfgvars, decvars, lenvars >>

\* bflush after the compress loop: the buffer is written to the file.
bflush ==
    /\ pc = "compress"
    /\ pos >= size
    /\ out' = out \o buf
    /\ buf' = << >>
    /\ pc' = "done"
    /\ UNCHANGED << data, sp, pos, lpos, in_literal, blocks >>
    /\ UNCHANGED << cfgvars, decvars, lenvars >>

---------------------------------------------------------------------------
(* The decompressor, lz8dec.c:36-124.                                      *)

\* The value getchar() reports at the end of the input.
EOF == -1

\* getchar() on the input s of which r bytes were read.
getchar(s, r) == IF r < Len(s) THEN s[r + 1] ELSE EOF

\* The bytes an uninitialized cell of decode's buf may hold.
UninitBytes == Alphabet

\* get_len with the flag bit of the first byte taken off before the sum.
get_len_flag_off(limit, s, r) ==
    LET c == getchar(s, r)
    IN  IF c = EOF THEN << -1, r >>
        ELSE IF limit < 256 \/ c < 128 THEN << c, r + 1 >>
        ELSE LET c2 == getchar(s, r + 1)
                 r2 == IF c2 = EOF THEN r + 1 ELSE r + 2
             IN  IF c = EOF THEN << -1, r2 >>
                 ELSE << (c % 128) + c2 * 128, r2 >>

\* get_len: << the length read or -1, the number of bytes read after it >>.
\* The test after the second getchar() looks at c, which is not EOF there,
\* so the second byte is used as it is: at the end of the input c2 is -1
\* and c2 << 7 is -128 in the gcc build.
get_len(limit, s, r) ==
    LET c == getchar(s, r)
    IN  IF c = EOF THEN << -1, r >>
        ELSE IF limit < 256 \/ c < 128 THEN << c, r + 1 >>
        ELSE LET c2 == getchar(s, r + 1)
                 r2 == IF c2 = EOF THEN r + 1 ELSE r + 2
             IN  IF c = EOF THEN << -1, r2 >>
                 ELSE << c + c2 * 128, r2 >>

\* unsigned mask = bits_moff > 8 ? 0xFFFF : 0xFF
mask == IF bits_moff > 8 THEN 65535 ELSE 255

\* if( exor_offset ) off = mask ^ off: off is at most mask, and mask is all
\* ones, so the exclusive or is the difference.
exor(x, m, o) == IF x THEN m - o ELSE o

\* The index of the copy taken one byte too far: an offset of 0 then names
\* the byte being written.
source_off_next(c, m, p, o) ==
    IF c.offset_rel < 0 THEN p - o + m + 1
    ELSE o + m + 1 - c.offset_rel

\* The offset as read, turned into the index the copy starts from.
source_off(c, m, p, o) ==
    IF c.offset_rel < 0 THEN p - o + m
    ELSE o + m + 1 - c.offset_rel

\* "Decode LITERAL": the length of the literal block, or the end.
decode_literal_len ==
    /\ dpc = "literal_len"
    /\ LET g == get_len(max_llen, inp, rd)
       IN  IF g[1] < 0
           THEN /\ dpc' = "done"
                /\ rd' = g[2]
                /\ UNCHANGED n
           ELSE /\ n' = g[1]
                /\ rd' = g[2]
                /\ dpc' = IF g[1] = 0 THEN "match_len" ELSE "literal"
    /\ UNCHANGED << mode, inp, dbuf, dpos, off, dout, err >>
    /\ UNCHANGED << cfgvars, encvars, lenvars >>

\* One turn of "Copy from input (LITERAL)".
decode_literal ==
    /\ dpc = "literal"
    /\ LET x == getchar(inp, rd)
       IN  IF x = EOF
           THEN /\ err' = "short file reading literal"
                /\ dpc' = "done"
                /\ UNCHANGED << rd, dbuf, dout, dpos, n >>
           ELSE /\ rd' = rd + 1
                /\ dbuf' = [i \in DOMAIN dbuf \cup {dpos % (mask + 1)} |->
                              IF i = dpos % (mask + 1) THEN x ELSE dbuf[i]]
                /\ dout' = Append(dout, x)
                /\ dpos' = dpos + 1
                /\ n' = n - 1
                /\ dpc' = IF n = 1 THEN "match_len" ELSE "literal"
                /\ UNCHANGED err
    /\ UNCHANGED << mode, inp, off >>
    /\ UNCHANGED << cfgvars, encvars, lenvars >>

\* "Decode MATCH": the length of the match block and, unless the length is
\* zero and zero_offset is off, its offset.
decode_match_len ==
    /\ dpc = "match_len"
    /\ LET g  == get_len(max_mlen, inp, rd)
           o1 == IF bits_moff > 0 THEN getchar(inp, g[2]) ELSE 0
           r1 == IF bits_moff > 0 THEN g[2] + 1 ELSE g[2]
           x  == IF bits_moff > 8 THEN getchar(inp, r1) ELSE 0
           r2 == IF bits_moff > 8 THEN r1 + 1 ELSE r1
       IN  IF g[1] < 0
           THEN /\ dpc' = "done"
                /\ rd' = g[2]
                /\ UNCHANGED << n, off, err >>
           ELSE IF ~ (zero_offset \/ g[1] # 0)
           THEN /\ n' = g[1]
                /\ rd' = g[2]
                /\ dpc' = "literal_len"
                /\ UNCHANGED << off, err >>
           ELSE IF o1 = EOF
           THEN /\ err' = "short file reading match offset"
                /\ dpc' = "done"
                /\ n' = g[1]
                /\ rd' = g[2]
                /\ UNCHANGED off
           ELSE IF x = EOF
           THEN /\ err' = "short file reading match offset"
                /\ dpc' = "done"
                /\ n' = g[1]
                /\ rd' = r1
                /\ UNCHANGED off
           ELSE /\ n' = g[1]
                /\ rd' = r2
                /\ off' = source_off(cfg, mask, dpos,
                                     exor(exor_offset, mask, o1 + x * 256))
                /\ dpc' = IF g[1] = 0 THEN "literal_len" ELSE "match"
                /\ UNCHANGED err
    /\ UNCHANGED << mode, inp, dbuf, dpos, dout >>
    /\ UNCHANGED << cfgvars, encvars, lenvars >>

\* One turn of "Copy from old output (MATCH)".  A cell of buf that was
\* never written holds any byte.
decode_match ==
    /\ dpc = "match"
    /\ \E x \in (IF off % (mask + 1) \in DOMAIN dbuf
                 THEN {dbuf[off % (mask + 1)]} ELSE UninitBytes) :
          /\ dbuf' = [i \in DOMAIN dbuf \cup {dpos % (mask + 1)} |->
                        IF i = dpos % (mask + 1) THEN x ELSE dbuf[i]]
          /\ dout' = Append(dout, x)
    /\ dpos' = dpos + 1
    /\ off' = off + 1
    /\ n' = n - 1
    /\ dpc' = IF n = 1 THEN "literal_len" ELSE "match"
    /\ UNCHANGED << mode, inp, rd, err >>
    /\ UNCHANGED << cfgvars, encvars, lenvars >>

---------------------------------------------------------------------------
(* The inputs.                                                             *)

\* All sequences over S of length k.
RECURSIVE SeqsOfLen(_, _)
SeqsOfLen(S, k) ==
    IF k = 0 THEN {<< >>}
    ELSE {Append(q, x) : q \in SeqsOfLen(S, k - 1), x \in S}

SeqsUpTo(S, k) == UNION {SeqsOfLen(S, j) : j \in 0 .. k}

\* K times the byte b.
Run(b, K) == [i \in 1 .. K |-> b]

\* The option values main accepts (lz8s.c:516-534, lz8dec.c:189-207): the
\* relative address needs 8 or 16 bit offsets and has to fit in them.
ValidCfg(c) ==
    /\ c.max_mlen >= 1 /\ c.max_mlen <= 32895
    /\ c.max_llen >= 1 /\ c.max_llen <= 32895
    /\ c.bits_moff >= 0 /\ c.bits_moff <= 16
    /\ IF c.bits_moff = 8 THEN c.offset_rel <= 255
       ELSE IF c.bits_moff = 16 THEN c.offset_rel <= 65535
       ELSE c.offset_rel < 0
    /\ c.offset_rel >= -1

\* The configurations of the exhaustive part.
SmallCfgs ==
    {c \in [bits_moff : {0, 1, 8, 16}, max_llen : {1, 2, 255},
            max_mlen : {1, 2, 255}, zero_offset : BOOLEAN,
            offset_rel : {-1, 1, 255, 65535}] :
        ValidCfg(c) /\ c.offset_rel \in {-1, 1, max_off(c.bits_moff) - 1}}

\* Inputs that need more bytes than the exhaustive part has: runs long
\* enough for a two byte length.
LongInputs ==
    {[c |-> c, d |-> Run(65, K)] :
        c \in {x \in [bits_moff : {0, 8}, max_llen : {255, 256},
                      max_mlen : {255, 256}, zero_offset : {FALSE},
                      offset_rel : {-1}] : ValidCfg(x)},
        K \in {129}}

\* Two inputs whose best parse needs a literal cut by an empty match.
Mixed12 == << 2, 1, 0, 0, 1, 2, 0, 2, 3, 2, 0, 3 >>

Mixed94 ==
    << 0, 0, 3, 5, 4, 3, 0, 5, 1, 0, 3, 5, 4, 0, 3, 4, 0, 0, 2, 4, 0, 1, 1, 0,
       2, 5, 0, 3, 2, 4, 1, 5, 0, 1, 4, 1, 0, 5, 3, 0, 0, 2, 1, 5, 3, 2, 0, 1,
       3, 0, 2, 1, 0, 0, 1, 3, 4, 1, 1, 0, 2, 4, 0, 5, 4, 1, 2, 4, 3, 0, 4, 0,
       1, 3, 4, 2, 2, 5, 1, 4, 3, 5, 4, 3, 2, 5, 4, 1, 3, 1, 5, 4, 3, 2 >>

\* An input whose match starts at position 2, with the largest relative
\* address: the offset field wraps.
RelInputs ==
    { [c |-> [bits_moff |-> 8, max_llen |-> 255, max_mlen |-> 255,
              zero_offset |-> FALSE, offset_rel |-> 255],
       d |-> << 66, 65, 65, 65, 65, 65 >>],
      [c |-> [bits_moff |-> 16, max_llen |-> 255, max_mlen |-> 255,
              zero_offset |-> FALSE, offset_rel |-> 65535],
       d |-> << 66, 65, 65, 65, 65, 65 >>] }

MixedInputs ==
    { [c |-> [bits_moff |-> 1, max_llen |-> 6, max_mlen |-> 2,
              zero_offset |-> TRUE, offset_rel |-> -1], d |-> Mixed12],
      [c |-> [bits_moff |-> 1, max_llen |-> 16, max_mlen |-> 3,
              zero_offset |-> TRUE, offset_rel |-> -1], d |-> Mixed94] }

\* An input whose table starts with a literal of 8 bytes, one more than
\* max_llen, followed by a match.
Split13 == << 65, 66, 65, 66, 65, 66, 65, 66, 66, 65, 66, 65, 66 >>

SplitInputs ==
    { [c |-> [bits_moff |-> 0, max_llen |-> 7, max_mlen |-> 7,
              zero_offset |-> FALSE, offset_rel |-> -1], d |-> Split13] }

Inputs ==
    {[c |-> c, d |-> d] : c \in SmallCfgs, d \in SeqsUpTo(Alphabet, MaxLen)}
      \cup LongInputs \cup RelInputs \cup MixedInputs \cup SplitInputs

---------------------------------------------------------------------------
(* The compressor followed by the decompressor.                            *)

DecoderIdle ==
    /\ inp = << >> /\ rd = 0 /\ dbuf = << >> /\ dpos = 0 /\ n = 0 /\ off = 0
    /\ dout = << >> /\ err = "none"

Init ==
    /\ \E x \in Inputs :
          /\ bits_moff = x.c.bits_moff
          /\ max_llen = x.c.max_llen
          /\ max_mlen = x.c.max_mlen
          /\ zero_offset = x.c.zero_offset
          /\ offset_rel = x.c.offset_rel
          /\ file = x.d
          /\ data = x.d
          /\ sp = [i \in 0 .. Len(x.d) |-> ZeroCell]
    /\ exor_offset = FALSE
    /\ pc = "init" /\ pos = 0 /\ lpos = -1 /\ in_literal = FALSE
    /\ buf = << >> /\ out = << >> /\ blocks = << >>
    /\ mode = "none" /\ dpc = "idle" /\ DecoderIdle
    /\ lim = 0 /\ len = 0

\* lz8dec is run on the compressed file, whole or without its last byte.
run_lz8dec ==
    /\ pc = "done"
    /\ dpc = "idle"
    /\ \/ mode' = "whole" /\ inp' = out
       \/ /\ Len(out) > 0
          /\ mode' = "cut"
          /\ inp' = SubSeq(out, 1, Len(out) - 1)
    /\ dpc' = "literal_len"
    /\ UNCHANGED << rd, dbuf, dpos, n, off, dout, err >>
    /\ UNCHANGED << cfgvars, encvars, lenvars >>

decode ==
    \/ decode_literal_len
    \/ decode_literal
    \/ decode_match_len
    \/ decode_match

Next ==
    \/ lzop_backfill_init
    \/ lzop_backfill
    \/ lzop_encode
    \/ bflush
    \/ run_lz8dec
    \/ decode

Spec == Init /\ [][Next]_vars

---------------------------------------------------------------------------
(* The decompressor alone, on any file.                                    *)

\* The compressor is not run.
EncoderIdle ==
    /\ data = << >> /\ sp = << >> /\ pos = 0 /\ lpos = -1 /\ in_literal = FALSE
    /\ buf = << >> /\ out = << >> /\ blocks = << >>

\* The options of the decompressor: every size of the offset field, both
\* sizes of the length fields.
DecCfgs ==
    [bits_moff : {0, 8, 16}, max_llen : {255, 256}, max_mlen : {255, 256},
     zero_offset : BOOLEAN, offset_rel : {-1}]

\* The files: small bytes, and the byte 128, which starts a two byte
\* length, in the last place only, so that the file ends inside the length
\* or the byte is a count, an offset or a literal byte.
Streams ==
    SeqsUpTo({0, 1, 2}, MaxStream)
      \cup {Append(q, 128) : q \in SeqsUpTo({0, 1, 2}, MaxStream - 1)}

InitDec ==
    /\ \E c \in DecCfgs :
          /\ bits_moff = c.bits_moff
          /\ max_llen = c.max_llen
          /\ max_mlen = c.max_mlen
          /\ zero_offset = c.zero_offset
          /\ offset_rel = c.offset_rel
    /\ exor_offset = FALSE
    /\ file = << >>
    /\ pc = "none" /\ EncoderIdle
    /\ mode = "stream" /\ inp \in Streams /\ dpc = "literal_len"
    /\ rd = 0 /\ dbuf = << >> /\ dpos = 0 /\ n = 0 /\ off = 0
    /\ dout = << >> /\ err = "none"
    /\ lim = 0 /\ len = 0

SpecDec == InitDec /\ [][decode]_vars

---------------------------------------------------------------------------
(* The compressor from the reading of its input, lz8s.c:558-563.  The      *)
(* buffer of main holds 128*1024 bytes; here it holds ReadCap bytes, and    *)
(* the files are as long as ReadCap + 1.  buf of struct bf holds 65536      *)
(* bytes, lz8s.c:40-46; here it holds BufCap bytes.                         *)

\* fread(data, 1, cap, input_file): the bytes read, at most cap of them.
fread(f, cap) == SubSeq(f, 1, Min(Len(f), cap))

\* The options of the runs that start at the reading.
ReadCfgs == {c \in SmallCfgs : c.offset_rel < 0 /\ ~ c.zero_offset}

\* The files of the runs that start at the reading.
Files == SeqsUpTo(Alphabet, ReadCap + 1)

InitRead ==
    /\ \E c \in ReadCfgs :
          /\ bits_moff = c.bits_moff
          /\ max_llen = c.max_llen
          /\ max_mlen = c.max_mlen
          /\ zero_offset = c.zero_offset
          /\ offset_rel = c.offset_rel
    /\ exor_offset = FALSE
    /\ file \in Files
    /\ pc = "read" /\ EncoderIdle
    /\ mode = "none" /\ dpc = "idle" /\ DecoderIdle
    /\ lim = 0 /\ len = 0

\* main, "Read all data" and lzop_init: sz is what fread returns, and
\* nothing looks at what the file holds after it.
read_input ==
    /\ pc = "read"
    /\ data' = fread(file, ReadCap)
    /\ sp' = [i \in 0 .. Len(fread(file, ReadCap)) |-> ZeroCell]
    /\ pc' = "init"
    /\ UNCHANGED << pos, lpos, in_literal, buf, out, blocks >>
    /\ UNCHANGED << cfgvars, decvars, lenvars >>

\* add_byte has stored bytes after the end of buf, over total and out of
\* struct bf and the frame of main: the run goes on as if nothing happened,
\* or it ends in a fault and no compressed file is written.
add_byte_fault ==
    /\ pc = "compress"
    /\ Len(buf) > BufCap
    /\ pc' = "fault"
    /\ UNCHANGED << data, sp, pos, lpos, in_literal, buf, out, blocks >>
    /\ UNCHANGED << cfgvars, decvars, lenvars >>

NextRead ==
    \/ read_input
    \/ lzop_backfill_init
    \/ lzop_backfill
    \/ lzop_encode
    \/ add_byte_fault
    \/ bflush

SpecRead == InitRead /\ [][NextRead]_vars

---------------------------------------------------------------------------
(* A length field alone: written as code_match and lzop_encode write it,   *)
(* read back by get_len.                                                   *)

\* The largest limit of a length main accepts.
MaxLimit == 32895

\* The limits tried: around the one byte form, the two byte form, and the
\* largest.
Limits == {1, 2, 127, 128, 255, 256, 257, MaxLimit}

InitLen ==
    /\ bits_moff = 8 /\ max_llen = 255 /\ max_mlen = 255
    /\ zero_offset = FALSE /\ offset_rel = -1
    /\ exor_offset = FALSE
    /\ file = << >>
    /\ pc = "len_start" /\ EncoderIdle
    /\ mode = "none" /\ dpc = "idle" /\ DecoderIdle
    /\ lim \in Limits
    /\ len \in 0 .. lim

\* The length is written to the buffer.
write_len ==
    /\ pc = "len_start"
    /\ buf' = len_bytes(lim, len)
    /\ pc' = "len_written"
    /\ UNCHANGED << data, sp, pos, lpos, in_literal, out, blocks >>
    /\ UNCHANGED << cfgvars, decvars, lenvars >>

\* get_len(lim) reads the buffer from its start.
read_len ==
    /\ pc = "len_written"
    /\ LET g == get_len(lim, buf, 0)
       IN  n' = g[1] /\ rd' = g[2]
    /\ pc' = "len_read"
    /\ UNCHANGED << data, sp, pos, lpos, in_literal, buf, out, blocks >>
    /\ UNCHANGED << mode, inp, dpc, dbuf, dpos, off, dout, err >>
    /\ UNCHANGED << cfgvars, lenvars >>

NextLen == write_len \/ read_len

SpecLen == InitLen /\ [][NextLen]_vars

---------------------------------------------------------------------------
(* The wire format, as README "Compression Format" and "Storing Counts"    *)
(* describe it, read without the decompressor.                             *)

\* The length field at byte i (from 0) of s: << length, bytes taken >>, or
\* << -1, 0 >> when s ends inside the field.
field_len(limit, s, i) ==
    IF i >= Len(s) THEN << -1, 0 >>
    ELSE IF limit <= 255 \/ s[i + 1] < 128 THEN << s[i + 1], 1 >>
    ELSE IF i + 1 >= Len(s) THEN << -1, 0 >>
    ELSE << (s[i + 1] - 128) + (s[i + 2] + 1) * 128, 2 >>

\* The number of bytes of an offset field.
offset_size(c) == IF c.bits_moff = 0 THEN 0 ELSE IF c.bits_moff <= 8 THEN 1 ELSE 2

\* s, from byte i on, is a sequence of whole blocks, literal and match in
\* turn, the first one literal iff lit.
RECURSIVE WellFormedFrom(_, _, _, _)
WellFormedFrom(c, s, i, lit) ==
    IF i = Len(s) THEN TRUE
    ELSE IF lit
    THEN LET f == field_len(c.max_llen, s, i)
         IN  /\ f[1] >= 0
             /\ f[1] <= c.max_llen
             /\ i + f[2] + f[1] <= Len(s)
             /\ WellFormedFrom(c, s, i + f[2] + f[1], FALSE)
    ELSE LET f  == field_len(c.max_mlen, s, i)
             ob == IF f[1] > 0 \/ c.zero_offset THEN offset_size(c) ELSE 0
         IN  /\ f[1] >= 0
             /\ f[1] <= c.max_mlen
             /\ i + f[2] + ob <= Len(s)
             /\ WellFormedFrom(c, s, i + f[2] + ob, TRUE)

WellFormed(c, s) ==
    /\ \A i \in 1 .. Len(s) : s[i] \in 0 .. 255
    /\ WellFormedFrom(c, s, 0, TRUE)

---------------------------------------------------------------------------
(* The shortest compressed file of an input: the least number of bytes of  *)
(* a well formed sequence of blocks that the decompressor turns into d,    *)
(* with every match at a distance of 1 .. max_off.                         *)

\* The number of bytes of a length field.
field_size(limit, l) == IF limit > 255 /\ l > 127 THEN 2 ELSE 1

SetMax(S) == CHOOSE x \in S : \A y \in S : y <= x

SetMin(S) == CHOOSE x \in S : \A y \in S : x <= y

\* The number of bytes, at most mx, that d has in common from a and from b
\* on (positions from 0).
common_len(d, a, b, mx) ==
    SetMax({i \in 0 .. mx : SubSeq(d, a + 1, a + i) = SubSeq(d, b + 1, b + i)})

\* T holds the cells of the positions after p, T[1] the one of p + 1: a
\* cell is << bytes needed when a literal block is next, bytes needed when
\* a match block is next >>.  The cell of p: a literal block of 1 .. lmax
\* bytes, or a match block of 1 .. mmax bytes, mmax the longest match at p
\* over the distances 1 .. max_off; an empty block of the other kind may
\* come first.  none is more than any file of d needs.
opt_cell(c, d, T, p) ==
    LET N     == Len(d)
        none  == 6 * N + 6
        mcap  == Min(c.max_mlen, N - p)
        mmax  == SetMax({0} \cup {common_len(d, p, i, mcap) :
                                    i \in max(p - max_off(c.bits_moff), 0) .. p - 1})
        candL == SetMin({none} \cup
                        {field_size(c.max_llen, l) + l + T[l][2] :
                            l \in 1 .. Min(c.max_llen, N - p)})
        candM == SetMin({none} \cup
                        {field_size(c.max_mlen, m) + offset_size(c) + T[m][1] :
                            m \in 1 .. mmax})
        zm    == 1 + (IF c.zero_offset THEN offset_size(c) ELSE 0)
    IN  << Min(candL, 1 + candM), Min(candM, zm + candL) >>

\* The table of d from the cells T of its last positions, the end of d
\* included.
RECURSIVE opt_table(_, _, _)
opt_table(c, d, T) ==
    IF Len(T) > Len(d) THEN T
    ELSE opt_table(c, d, << opt_cell(c, d, T, Len(d) - Len(T)) >> \o T)

\* The file starts with a literal block.
OptLen(c, d) == opt_table(c, d, << << 0, 0 >> >>)[1][1]

IsPrefix(p, q) == Len(p) <= Len(q) /\ \A i \in 1 .. Len(p) : p[i] = q[i]

DefaultCfg == bits_moff = 8 /\ max_llen = 255 /\ max_mlen = 255
              /\ ~ zero_offset /\ offset_rel = -1

---------------------------------------------------------------------------
(* Properties *)

C2_WellFormed ==
    pc = "done" => WellFormed(cfg, out)

\* C2 happens: a file with two literal blocks split by an empty match that
\* carries an offset, then a match.
C2_Witness ==
    /\ pc = "done"
    /\ zero_offset /\ bits_moff > 8
    /\ \E i \in 1 .. Len(blocks) - 2 :
          blocks[i].lit /\ blocks[i + 1].lit /\ ~ blocks[i + 2].lit
    /\ WellFormed(cfg, out)

\* C3 (as the code has it): when the whole input fits in one literal block
\* with a one byte length (its length is at most max_llen, and at most 127
\* when max_llen is above 255), no well formed file that decompresses to
\* the input is shorter than the compressed file.
C3_OptimalParse ==
    (pc = "done" /\ dpc = "idle"
       /\ Len(data) <= max_llen /\ (max_llen <= 255 \/ Len(data) <= 127))
        => Len(out) <= OptLen(cfg, data)

\* C3 happens: such an input whose shortest file has a match.
C3_Witness ==
    /\ pc = "done" /\ dpc = "idle"
    /\ Len(data) <= max_llen /\ max_llen <= 255
    /\ Len(data) >= 3
    /\ Len(out) = OptLen(cfg, data)
    /\ Len(out) < Len(data) + 1

\* C3 as claimed: for every input no well formed file that decompresses to
\* it is shorter.
C3_AsClaimed ==
    (pc = "done" /\ dpc = "idle") => Len(out) <= OptLen(cfg, data)

RECURSIVE EndsAtField(_, _, _, _)
EndsAtField(c, s, i, lit) ==
    IF i = Len(s) THEN TRUE
    ELSE LET f  == field_len(IF lit THEN c.max_llen ELSE c.max_mlen, s, i)
             ob == IF f[1] > 0 \/ c.zero_offset THEN offset_size(c) ELSE 0
             e  == i + f[2] + (IF lit THEN f[1] ELSE ob)
         IN  f[1] >= 0 /\ e <= Len(s) /\ EndsAtField(c, s, e, ~ lit)

\* C5 as claimed: the decompressor ends without a message iff its input
\* ends where a literal length or a match length would start, and with a
\* message when the input ends in literal bytes, in the second byte of a
\* length or in an offset.
C5_AsClaimed ==
    (mode = "stream" /\ dpc = "done")
        => (err = "none" <=> EndsAtField(cfg, inp, 0, TRUE))

\* The bytes C6 expects for the length L under a limit.
ClaimedBytes(limit, L) ==
    IF limit <= 255 \/ L <= 127 THEN << L >>
    ELSE << 128 + (L % 128), (L \div 128) - 1 >>

\* C6: a length L of 0 .. limit is written as the byte L when the limit is
\* at most 255 or L at most 127, else as the two bytes 0x80 | (L & 0x7F)
\* and (L >> 7) - 1, every byte in 0 .. 255; get_len with the same limit
\* reads L back from them and takes exactly the bytes written.
C6_LengthField ==
    /\ pc \in {"len_written", "len_read"}
          => /\ buf = ClaimedBytes(lim, len)
             /\ \A i \in 1 .. Len(buf) : buf[i] \in 0 .. 255
    /\ pc = "len_read" => (n = len /\ rd = Len(buf))

\* C6 happens: the largest length, read back from two bytes.
C6_Witness ==
    /\ pc = "len_read" /\ lim = MaxLimit /\ len = MaxLimit
    /\ buf = << 255, 255 >> /\ n = len /\ rd = 2

\* The match block of the compressor that holds position p.
BlocksAt(p) ==
    {i \in 1 .. Len(blocks) :
        ~ blocks[i].lit /\ blocks[i].at <= p /\ p < blocks[i].at + blocks[i].n}

\* The offset field the decompressor has just read.
FieldRead == IF bits_moff > 8 THEN inp[rd - 1] + 256 * inp[rd] ELSE inp[rd]

IsRun(d, K) == Len(d) = K /\ \A i \in 1 .. K : d[i] = d[1]

\* C8 (as the code has it): with bits_moff = 0 a run of K bytes, K from 2
\* to max_mlen + 1, is compressed to at most 3 bytes when the match length
\* K - 1 takes one byte, and to at most 4 bytes when it takes two.
C8_RunLength ==
    (pc = "done" /\ bits_moff = 0 /\ IsRun(data, Len(data))
       /\ Len(data) >= 2 /\ Len(data) <= max_mlen + 1)
        => Len(out) <= (IF max_mlen > 255 /\ Len(data) - 1 > 127 THEN 4 ELSE 3)

\* C8 happens: a run of 129 bytes whose match length takes two bytes.
C8_Witness ==
    /\ pc = "done" /\ bits_moff = 0 /\ IsRun(data, Len(data))
    /\ Len(data) > 128 /\ max_mlen > 255
    /\ Len(out) = 4

\* C8 as claimed: at most 3 bytes for every such run.
C8_AsClaimed ==
    (pc = "done" /\ bits_moff = 0 /\ IsRun(data, Len(data))
       /\ Len(data) >= 2 /\ Len(data) <= max_mlen + 1)
        => Len(out) <= 3

\* The bound of C9 for an input of N bytes.
ExpansionBound(c, N) ==
    LET len_hdr == IF c.max_llen > 255 THEN 2 ELSE 1
        runs    == (N + c.max_llen - 1) \div c.max_llen
    IN  N + runs * (len_hdr + zero_match_cost(c) \div 8) + 2

\* C9 as claimed: the compressed file of N bytes of input has at most
\* N + ceil(N / max_llen) * (len_hdr + zero_match_cost / 8) + 2 bytes.
C9_AsClaimed ==
    pc = "done" => Len(out) <= ExpansionBound(cfg, Len(data))

\* C10 (as the code has it): the input "A" with the default options is
\* compressed to the two bytes 01 41, a literal block and nothing after it.
C10_OneByte ==
    (pc = "done" /\ DefaultCfg /\ data = << 65 >>) => out = << 1, 65 >>

C10_Witness ==
    pc = "done" /\ DefaultCfg /\ data = << 65 >> /\ Len(out) = 2

\* C10 as claimed: the three bytes 01 41 00.
C10_AsClaimed ==
    (pc = "done" /\ DefaultCfg /\ data = << 65 >>) => out = << 1, 65, 0 >>

\* C11 as claimed: a file longer than the buffer of main is rejected, no
\* compressed file is written for it and the compressor does not end well.
C11_AsClaimed ==
    Len(file) > ReadCap => (pc # "done" /\ out = << >>)

\* C12 as claimed: for a non-empty input the cost the table gives for the
\* whole input, min(sp[0].lbits, sp[0].mbits), is 8 times the number of
\* bytes written, also when a literal of the table is longer than max_llen.
C12_AsClaimed ==
    (pc = "done" /\ size > 0) => Min(sp[0].lbits, sp[0].mbits) = 8 * Len(out)

\* The lowest position whose cell lzop_backfill has written.
filled ==
    IF pc = "backfill" THEN pos + 1
    ELSE IF pc \in {"compress", "done"} /\ size > 0 THEN 0
    ELSE size

\* The positions match looks at from p, and the cap on its length.
Window(p) == max(p - max_off(bits_moff), 0) .. p - 1
MatchCap(p) == Min(max_mlen, size - p)

\* data[p ..] and data[i ..] agree on l bytes.
Agree(p, i, l) == \A k \in 1 .. l : data[p + k] = data[i + k]

\* The length match returns at p is the longest common prefix of data[p ..]
\* and data[i ..] over the window, capped, and the cell holds its offset.
LongestAt(p, r) ==
    /\ r[1] \in 0 .. MatchCap(p)
    /\ sp[p].mpos = r[2]
    /\ IF r[1] = 0 THEN r[2] = 0
       ELSE p - r[2] \in Window(p) /\ Agree(p, p - r[2], r[1])
    /\ r[1] < MatchCap(p) => \A i \in Window(p) : ~ Agree(p, i, r[1] + 1)

\* Two positions of the window reach the length r[1].
Tied(p, r) ==
    r[1] > 0 /\ \E i, j \in Window(p) : i < j /\ Agree(p, i, r[1]) /\ Agree(p, j, r[1])

SplitCount(L) == (L + max_llen - 1) \div max_llen

\* The bytes of the literal block x: the length and the bytes of the input.
lit_block(x) == len_bytes(max_llen, x.n) \o SubSeq(data, x.at + 1, x.at + x.n)

\* The blocks started where the table holds a literal longer than max_llen.
LongLiterals ==
    {b \in 1 .. Len(blocks) : blocks[b].lit /\ sp[blocks[b].at].llen > max_llen}

\* The literal blocks b .. b + K - 1 follow one another in the input and in
\* the file, all but the last are max_llen long, the last one reaches the
\* end of the L bytes, and only an empty match is between two of them.
SplitAt(b, L, K) ==
    /\ b + K - 1 <= Len(blocks)
    /\ \A j \in 0 .. K - 1 :
          LET x == blocks[b + j]
          IN  /\ x.lit
              /\ x.at = blocks[b].at + j * max_llen
              /\ x.n \in 1 .. max_llen
              /\ j < K - 1 => x.n = max_llen
              /\ j = K - 1 => x.at + x.n >= blocks[b].at + L
              /\ SubSeq(out, x.o + 1, x.o + Len(lit_block(x))) = lit_block(x)
              /\ j > 0 =>
                    LET y == blocks[b + j - 1]
                        e == y.o + Len(lit_block(y))
                    IN  /\ x.o = e + Len(code_match(cfg, 0, 0))
                        /\ SubSeq(out, e + 1, x.o) = code_match(cfg, 0, 0)

---------------------------------------------------------------------------
(* The compressor followed by lz8dec -x on the compressed file with its    *)
(* offset fields complemented.                                             *)

\* The bytes of s from byte i on with the bytes of every offset field
\* complemented; s is read as blocks, literal and match in turn, the first
\* one literal iff lit, and what is not a whole block is left as it is.
RECURSIVE Complemented(_, _, _, _)
Complemented(c, s, i, lit) ==
    IF i >= Len(s) THEN << >>
    ELSE IF lit
    THEN LET f == field_len(c.max_llen, s, i)
         IN  IF f[1] < 0 \/ i + f[2] + f[1] > Len(s)
             THEN SubSeq(s, i + 1, Len(s))
             ELSE SubSeq(s, i + 1, i + f[2] + f[1])
                    \o Complemented(c, s, i + f[2] + f[1], FALSE)
    ELSE LET f  == field_len(c.max_mlen, s, i)
             ob == IF f[1] > 0 \/ c.zero_offset THEN offset_size(c) ELSE 0
         IN  IF f[1] < 0 \/ i + f[2] + ob > Len(s)
             THEN SubSeq(s, i + 1, Len(s))
             ELSE SubSeq(s, i + 1, i + f[2])
                    \o [j \in 1 .. ob |-> 255 - s[i + f[2] + j]]
                    \o Complemented(c, s, i + f[2] + ob, TRUE)

\* The inputs of these runs.
ExorInputs == {x \in Inputs : Len(x.d) <= MaxLen} \cup RelInputs

InitExor ==
    /\ \E x \in ExorInputs :
          /\ bits_moff = x.c.bits_moff
          /\ max_llen = x.c.max_llen
          /\ max_mlen = x.c.max_mlen
          /\ zero_offset = x.c.zero_offset
          /\ offset_rel = x.c.offset_rel
          /\ file = x.d
          /\ data = x.d
          /\ sp = [i \in 0 .. Len(x.d) |-> ZeroCell]
    /\ exor_offset \in BOOLEAN
    /\ pc = "init" /\ pos = 0 /\ lpos = -1 /\ in_literal = FALSE
    /\ buf = << >> /\ out = << >> /\ blocks = << >>
    /\ mode = "none" /\ dpc = "idle" /\ DecoderIdle
    /\ lim = 0 /\ len = 0

\* lz8dec is run on the compressed file, and lz8dec -x on the compressed
\* file with complemented offsets.
run_lz8dec_x ==
    /\ pc = "done"
    /\ dpc = "idle"
    /\ mode' = "whole"
    /\ inp' = IF exor_offset THEN Complemented(cfg, out, 0, TRUE) ELSE out
    /\ dpc' = "literal_len"
    /\ UNCHANGED << rd, dbuf, dpos, n, off, dout, err >>
    /\ UNCHANGED << cfgvars, encvars, lenvars >>

NextExor ==
    \/ lzop_backfill_init
    \/ lzop_backfill
    \/ lzop_encode
    \/ bflush
    \/ run_lz8dec_x
    \/ decode

SpecExor == InitExor /\ [][NextExor]_vars

\* C15 as claimed: lz8dec -x on the compressed file with every offset
\* field complemented writes what lz8dec writes on the compressed file,
\* the input of the compressor, for every bits_moff, 0 too.
C15_AsClaimed ==
    (dpc = "done" /\ mode = "whole") => dout = data

---------------------------------------------------------------------------
\* The cell of position p after the backward pass: the literal side is
\* finite, a positive multiple of 8, with a length inside the input.
LiteralSide(p) ==
    /\ sp[p].lbits < INFINITE_COST
    /\ sp[p].lbits > 0
    /\ sp[p].lbits % 8 = 0
    /\ sp[p].llen \in 1 .. size - p

\* The match side holds a match: a finite cost, a length and a distance
\* inside the limits, and the bytes at that distance are the same.
MatchSide(p) ==
    /\ sp[p].mbits < INFINITE_COST
    /\ sp[p].mbits % 8 = 0
    /\ sp[p].mlen \in 1 .. Min(max_mlen, size - p)
    /\ sp[p].mpos \in 1 .. Min(Pow2(bits_moff), p)
    /\ \A k \in 0 .. sp[p].mlen - 1 :
          data[p + k + 1] = data[p + k - sp[p].mpos + 1]

\* C16: after the backward pass, at every position p of the input, lbits
\* is below the sentinel and a positive multiple of 8 and
\* 1 <= llen <= N - p; and either mbits is the sentinel and mlen = 0, or
\* mbits is a finite multiple of 8, 1 <= mlen <= min(max_mlen, N - p),
\* 1 <= mpos <= min(max_off, p) and data[p + k] = data[p + k - mpos] for
\* every k below mlen.
C16_TableInvariants ==
    pc \in {"compress", "done"} =>
        \A p \in 0 .. size - 1 :
            /\ LiteralSide(p)
            /\ IF sp[p].mbits = INFINITE_COST THEN sp[p].mlen = 0
               ELSE MatchSide(p)

\* A table with a cell that holds a match longer than one byte at a
\* distance above 1 and a cell that holds none.
C16_Witness ==
    /\ pc = "compress"
    /\ \E p, q \in 0 .. size - 1 :
          /\ MatchSide(p) /\ sp[p].mlen > 1 /\ sp[p].mpos > 1
          /\ sp[q].mbits = INFINITE_COST

---------------------------------------------------------------------------
\* The block before block b was a literal: lz->in_literal when b starts.
AfterLiteral(b) == b > 1 /\ blocks[b - 1].lit

\* The cost the table gives for the alternative taken at block b.
ChosenCost(b) ==
    IF blocks[b].lit THEN sp[blocks[b].at].lbits ELSE sp[blocks[b].at].mbits

\* The blocks that hold position p.
Covering(p) ==
    {b \in 1 .. Len(blocks) :
        blocks[b].at <= p /\ p < blocks[b].at + blocks[b].n}

\* C17: where a block is started from the table, a literal is taken iff
\* lbits + extra_cost <= mbits, extra_cost being zero_match_cost after a
\* literal and 0 else; the alternative taken has a finite cost and a
\* length of at least 1; a block starts one byte after the last byte of the
\* block before it, the first one at 0; and at the end every position of
\* the input is in exactly one block.
C17_Progress ==
    pc \in {"compress", "done"} =>
        /\ \A b \in 1 .. Len(blocks) :
              /\ blocks[b].lit <=>
                    sp[blocks[b].at].lbits
                      + (IF AfterLiteral(b) THEN zero_match_cost(cfg) ELSE 0)
                        <= sp[blocks[b].at].mbits
              /\ ChosenCost(b) < INFINITE_COST
              /\ blocks[b].n >= 1
              /\ blocks[b].at =
                    IF b = 1 THEN 0 ELSE blocks[b - 1].at + blocks[b - 1].n
        /\ pc = "done" =>
              \A p \in 0 .. size - 1 : Cardinality(Covering(p)) = 1

\* The end of a run with a match block taken although lbits <= mbits,
\* because of the cost of the empty match, and a literal block after it.
C17_Witness ==
    /\ pc = "done"
    /\ \E b \in 2 .. Len(blocks) - 1 :
          /\ ~ blocks[b].lit /\ blocks[b - 1].lit /\ blocks[b + 1].lit
          /\ sp[blocks[b].at].lbits <= sp[blocks[b].at].mbits

---------------------------------------------------------------------------
\* C18 as claimed: for every input that fits the buffer of main, the bytes
\* add_byte has stored before the flush at the end are never more than buf
\* of struct bf holds.
C18_AsClaimed ==
    Len(buf) <= BufCap

====
